---- MODULE Spec2Model ----
(***************************************************************************)
(* Model of the visit-counter service (src/app.py): the two Flask routes   *)
(* /ping and /count, the lazy version check of get_redis() and the remote  *)
(* Redis store they talk to.  Requests are handled by worker threads; a    *)
(* request is split at the points where it talks to the store, so that     *)
(* other requests and changes of the store's health interleave there.      *)
(***************************************************************************)
EXTENDS Integers, FiniteSets, Sequences, TLC

\* ---- bounds of the model -------------------------------------------------
NumThreads == 2
MaxRequests == 4
MaxStart == 1

Threads == 1..NumThreads

\* ---- values ----------------------------------------------------------------
\* Python's None, the initial value of REDIS_VERSION (app.py:59)
None == "<None>"
\* the fallback of .get('redis_version', 'unknown') and of the except branch
Unknown == "unknown"
\* os.getenv("FLASK_ENV", "development")
Environment == "development"
\* "version": "1.2.0"
AppVersion == "1.2.0"
CountNote == "Try hitting refresh to see the counter increase!"

\* health of the remote store as one command sees it:
\*   up   - the command is executed and its reply arrives in time
\*   slow - socket_timeout / socket_connect_timeout (1s) expires
\*   down - the connection is refused
BackendStates == {"up", "slow", "down"}

\* replies of the INFO command a Redis-compatible store may give
InfoReplies == {[redis_version |-> "7.2.4"], [redis_mode |-> "standalone"]}

\* redis.exceptions.RedisError and the subclasses the client raises
RedisError == {"ConnectionError", "TimeoutError", "ResponseError"}

VARIABLES
    backend,        \* health of the remote store
    serverInfo,     \* the store's INFO reply (fixed for a run)
    counter,        \* the value stored under the key 'counter' (0: key absent)
    REDIS_VERSION,  \* the module-level version cache
    pc,             \* per thread: "idle", "info", "cmd", "done"
    kind,           \* per thread: the route being handled, "ping" or "count"
    resp,           \* per thread: the HTTP response of the last request
    logged,         \* per thread: the log messages of the current request
    probe,          \* per thread: outcome of conn.ping(), "none"/"ok"/"failed"
    start,          \* history: value of the counter when the process started
    applied,        \* history: number of INCRs the store executed
    lastSeen,       \* history: visit_count of the last 200 response (start if none)
    lostSince,      \* history: INCRs executed since then whose request got 503
    returned,       \* history: set of visit_count values sent in 200 responses
    okCount,        \* history: number of 200 responses of /count
    failures,       \* history: number of requests that logged a backend error
    started         \* history: number of requests begun

vars == <<backend, serverInfo, counter, REDIS_VERSION, pc, kind, resp, logged,
          probe, start, applied, lastSeen, lostSince, returned, okCount,
          failures, started>>

hist == <<start, applied, lastSeen, lostSince, returned, okCount, failures>>

\* ---- the store client ------------------------------------------------------
\* outcome of one command sent through the pool (timeouts of app.py:52-53)
Execute_cachedDown(b) ==
    IF REDIS_VERSION = Unknown
    THEN "ConnectionError"
    ELSE CASE b = "up" -> "ok"
           [] b = "slow" -> "TimeoutError"
           [] b = "down" -> "ConnectionError"

Execute(b) ==
    CASE b = "up" -> "ok"
      [] b = "slow" -> "TimeoutError"
      [] b = "down" -> "ConnectionError"

\* conn.info().get('redis_version', 'unknown')
InfoVersion_noDefault(info) ==
    IF "redis_version" \in DOMAIN info THEN info.redis_version ELSE None

InfoVersion(info) ==
    IF "redis_version" \in DOMAIN info THEN info.redis_version ELSE Unknown

\* INCR: the new value of the key, created at 1 when absent
Incr_get(c) == c

Incr(c) == c + 1

\* the except branch of get_redis: REDIS_VERSION = 'unknown' (old: the value before)
CacheAfterFailure_keep(old) == old

CacheAfterFailure(old) == Unknown

\* PING leaves the stored counter alone
StoreAfterPing_incr(c) == c + 1

StoreAfterPing(c) == c

\* ---- except clauses ----------------------------------------------------------
\* get_redis: except RedisError (app.py:74)
GetRedisCatches_none(e) == FALSE

GetRedisCatches(e) == e \in RedisError
\* ping: except RedisError as e (app.py:99)
PingCatches(e) == e \in RedisError
\* count: except RedisError as e (app.py:130)
CountCatches_connOnly(e) == e = "ConnectionError"

CountCatches(e) == e \in RedisError

\* ---- responses ---------------------------------------------------------------
NoResponse == [code |-> 0, body |-> [status |-> "none"]]

\* response_time_ms is a wall-clock reading and is left out of the body
PingResponse(connected) ==
    [code |-> 200,
     body |-> [status |-> "ok", environment |-> Environment,
               redis_connected |-> connected, version |-> AppVersion]]

CountResponse_prev(visits, version) ==
    [code |-> 200,
     body |-> [status |-> "ok", visit_count |-> visits - 1, note |-> CountNote,
               redis_version |-> version]]

CountResponse(visits, version) ==
    [code |-> 200,
     body |-> [status |-> "ok", visit_count |-> visits, note |-> CountNote,
               redis_version |-> version]]

ErrorResponse_noStatus ==
    [code |-> 200,
     body |-> [status |-> "error", message |-> "Counter service unavailable",
               action |-> "Please try again later", severity |-> "high"]]

ErrorResponse ==
    [code |-> 503,
     body |-> [status |-> "error", message |-> "Counter service unavailable",
               action |-> "Please try again later", severity |-> "high"]]

\* an exception no handler caught: Flask answers 500
RawException(e) == [code |-> 500, body |-> [status |-> "exception", raised |-> e]]

\* what the route's except clause makes of an exception raised in its try block
Handle(k, e) ==
    IF k = "ping"
    THEN IF PingCatches(e) THEN PingResponse(FALSE) ELSE RawException(e)
    ELSE IF CountCatches(e) THEN ErrorResponse ELSE RawException(e)

HandleLog(k, e) ==
    IF k = "ping"
    THEN IF PingCatches(e) THEN {"Redis ping failed"} ELSE {}
    ELSE IF CountCatches(e) THEN {"Redis operation failed"} ELSE {}

\* ---- initial state -------------------------------------------------------------
Init ==
    /\ backend \in BackendStates
    /\ serverInfo \in InfoReplies
    /\ counter \in 0..MaxStart
    /\ REDIS_VERSION = None
    /\ pc = [t \in Threads |-> "idle"]
    /\ kind = [t \in Threads |-> "ping"]
    /\ resp = [t \in Threads |-> NoResponse]
    /\ logged = [t \in Threads |-> {}]
    /\ probe = [t \in Threads |-> "none"]
    /\ start = counter
    /\ applied = 0
    /\ lastSeen = counter
    /\ lostSince = 0
    /\ returned = {}
    /\ okCount = 0
    /\ failures = 0
    /\ started = 0

\* ---- the environment -----------------------------------------------------------
\* the store becomes reachable, slow or unreachable
SetBackend(b) ==
    /\ b # backend
    /\ backend' = b
    /\ UNCHANGED <<serverInfo, counter, REDIS_VERSION, pc, kind, resp, logged,
                   probe, hist, started>>

\* ---- a request -------------------------------------------------------------------
\* the route is entered: get_redis() builds the client (no traffic yet) and
\* tests `REDIS_VERSION is None`
Begin(t, k) ==
    /\ pc[t] \in {"idle", "done"}
    /\ started < MaxRequests
    /\ started' = started + 1
    /\ kind' = [kind EXCEPT ![t] = k]
    /\ resp' = [resp EXCEPT ![t] = NoResponse]
    /\ logged' = [logged EXCEPT ![t] = {}]
    /\ probe' = [probe EXCEPT ![t] = "none"]
    /\ pc' = [pc EXCEPT ![t] = IF REDIS_VERSION = None THEN "info" ELSE "cmd"]
    /\ UNCHANGED <<backend, serverInfo, counter, REDIS_VERSION, hist>>

\* the same, when the server handles one request at a time
SeqBegin(t, k) ==
    /\ \A u \in Threads : pc[u] \in {"idle", "done"}
    /\ Begin(t, k)

\* get_redis(): the version check, conn.info() and the write of the cache
Info(t) ==
    /\ pc[t] = "info"
    /\ LET e == Execute(backend) IN
        IF e = "ok"
        THEN /\ REDIS_VERSION' = InfoVersion(serverInfo)
             /\ logged' = [logged EXCEPT ![t] = @ \cup {"Connected to Redis"}]
             /\ pc' = [pc EXCEPT ![t] = "cmd"]
             /\ UNCHANGED <<resp, failures>>
        ELSE IF GetRedisCatches(e)
        THEN /\ REDIS_VERSION' = CacheAfterFailure(REDIS_VERSION)
             /\ logged' = [logged EXCEPT ![t] = @ \cup {"Could not fetch Redis version"}]
             /\ pc' = [pc EXCEPT ![t] = "cmd"]
             /\ UNCHANGED <<resp, failures>>
        ELSE /\ resp' = [resp EXCEPT ![t] = Handle(kind[t], e)]
             /\ logged' = [logged EXCEPT ![t] = @ \cup HandleLog(kind[t], e)]
             /\ pc' = [pc EXCEPT ![t] = "done"]
             /\ failures' = failures + 1
             /\ UNCHANGED REDIS_VERSION
    /\ UNCHANGED <<backend, serverInfo, counter, kind, probe, start, applied,
                   lastSeen, lostSince, returned, okCount, started>>

\* ping(): redis_conn.ping() and the response
PingCmd(t) ==
    /\ pc[t] = "cmd"
    /\ kind[t] = "ping"
    /\ LET e == Execute(backend) IN
        /\ counter' = StoreAfterPing(counter)
        /\ probe' = [probe EXCEPT ![t] = IF e = "ok" THEN "ok" ELSE "failed"]
        /\ IF e = "ok"
           THEN /\ resp' = [resp EXCEPT ![t] = PingResponse(TRUE)]
                /\ UNCHANGED <<logged, failures>>
           ELSE /\ resp' = [resp EXCEPT ![t] = Handle("ping", e)]
                /\ logged' = [logged EXCEPT ![t] = @ \cup HandleLog("ping", e)]
                /\ failures' = failures + 1
    /\ pc' = [pc EXCEPT ![t] = "done"]
    /\ UNCHANGED <<backend, serverInfo, REDIS_VERSION, kind, start, applied,
                   lastSeen, lostSince, returned, okCount, started>>

\* count(): redis_conn.incr('counter') and the response.  When the store is
\* slow the command may have been delivered and executed before the reply
\* timed out (reached), or the connect itself timed out.
CountCmd(t) ==
    /\ pc[t] = "cmd"
    /\ kind[t] = "count"
    /\ \E reached \in BOOLEAN :
        LET e == Execute(backend)
            executed == e = "ok" \/ (backend = "slow" /\ reached)
            visits == Incr(counter)
        IN  /\ counter' = IF executed THEN visits ELSE counter
            /\ applied' = IF executed THEN applied + 1 ELSE applied
            /\ IF e = "ok"
               THEN /\ resp' = [resp EXCEPT ![t] = CountResponse(visits, REDIS_VERSION)]
                    /\ logged' = [logged EXCEPT ![t] = @ \cup {"Visit recorded"}]
                    /\ lastSeen' = visits
                    /\ lostSince' = 0
                    /\ returned' = returned \cup {visits}
                    /\ okCount' = okCount + 1
                    /\ UNCHANGED failures
               ELSE /\ resp' = [resp EXCEPT ![t] = Handle("count", e)]
                    /\ logged' = [logged EXCEPT ![t] = @ \cup HandleLog("count", e)]
                    /\ lostSince' = IF executed THEN lostSince + 1 ELSE lostSince
                    /\ failures' = failures + 1
                    /\ UNCHANGED <<lastSeen, returned, okCount>>
    /\ pc' = [pc EXCEPT ![t] = "done"]
    /\ UNCHANGED <<backend, serverInfo, REDIS_VERSION, kind, probe, start, started>>

Next ==
    \/ \E b \in BackendStates : SetBackend(b)
    \/ \E t \in Threads, k \in {"ping", "count"} : Begin(t, k)
    \/ \E t \in Threads : Info(t)
    \/ \E t \in Threads : PingCmd(t)
    \/ \E t \in Threads : CountCmd(t)

SeqNext ==
    \/ \E b \in BackendStates : SetBackend(b)
    \/ \E t \in Threads, k \in {"ping", "count"} : SeqBegin(t, k)
    \/ \E t \in Threads : Info(t)
    \/ \E t \in Threads : PingCmd(t)
    \/ \E t \in Threads : CountCmd(t)

\* requests handled concurrently by the server's workers
Spec == Init /\ [][Next]_vars

\* requests handled one after another
SeqSpec == Init /\ [][SeqNext]_vars

\* ---- steps of a request, as the properties below refer to them -------------------
\* thread t completes a /count request in this step
CountEnds(t) == pc[t] = "cmd" /\ kind[t] = "count" /\ pc'[t] = "done"
\* thread t completes a /ping request in this step
PingEnds(t) == pc[t] = "cmd" /\ kind[t] = "ping" /\ pc'[t] = "done"
\* thread t runs the version query in this step, and it fails
InfoFails(t) == pc[t] = "info" /\ pc'[t] # "info" /\ backend # "up"
\* thread t has a finished request of route k
Done(t, k) == pc[t] = "done" /\ kind[t] = k

OkKeys == {"status", "visit_count", "note", "redis_version"}

\* the error body of /count as the specification fixes it
FixedErrorBody ==
    [status |-> "error", message |-> "Counter service unavailable",
     action |-> "Please try again later", severity |-> "high"]

\* ---- C1 ---------------------------------------------------------------------------
\* C1: every finished /ping request carries HTTP 200, and its redis_connected is
\* false exactly when the liveness probe conn.ping() failed; a failed version
\* query followed by a successful probe still gives redis_connected = true.
C1_PingAlways200 ==
    \A t \in Threads : Done(t, "ping") =>
        /\ resp[t].code = 200
        /\ resp[t].body.status = "ok"
        /\ (resp[t].body.redis_connected = FALSE) <=> (probe[t] = "failed")
        /\ (resp[t].body.redis_connected = TRUE) <=> (probe[t] = "ok")

\* a ping whose version query failed and whose probe succeeded
C1_Witness ==
    \E t \in Threads :
        /\ Done(t, "ping")
        /\ "Could not fetch Redis version" \in logged[t]
        /\ probe[t] = "ok"
        /\ resp[t].body.redis_connected = TRUE

\* ---- C2 ---------------------------------------------------------------------------
\* C2 as stated: with requests handled one after another, each 200 response of
\* /count carries the visit_count of the previous 200 response plus 1.
C2_Original ==
    [][\A t \in Threads :
         (CountEnds(t) /\ resp'[t].code = 200) =>
             resp'[t].body.visit_count = lastSeen + 1]_vars

\* C2 amended: with requests handled one after another, each 200 response of
\* /count carries the visit_count of the previous 200 response (the starting
\* value if there was none), plus 1, plus the number of failed /count requests in
\* between whose INCR the store executed before the reply timed out; with no such
\* request in between the step is exactly 1, and from an absent counter the
\* first two responses carry 1 and 2.
C2_StepByOne ==
    [][\A t \in Threads :
         (CountEnds(t) /\ resp'[t].code = 200) =>
             /\ resp'[t].body.visit_count = lastSeen + 1 + lostSince
             /\ (start = 0 /\ applied = 0) => resp'[t].body.visit_count = 1
             /\ (start = 0 /\ applied = 1 /\ okCount = 1) => resp'[t].body.visit_count = 2]_vars

\* the second 200 response of a process that started with the counter absent
C2_Witness ==
    /\ start = 0
    /\ okCount = 2
    /\ returned = {1, 2}
    /\ \E t \in Threads : Done(t, "count") /\ resp[t].code = 200 /\ resp[t].body.visit_count = 2

\* ---- C3 ---------------------------------------------------------------------------
\* C3 as stated: a /count request that fails answers 503 with the fixed body and
\* leaves the stored counter as it was.
C3_Original ==
    [][\A t \in Threads :
         (CountEnds(t) /\ backend # "up") =>
             /\ resp'[t].code = 503
             /\ resp'[t].body = FixedErrorBody
             /\ counter' = counter]_vars

\* C3 amended: a /count request that fails answers 503 with the fixed body; when
\* the store could not be reached the counter is not incremented, and when the
\* operation timed out the counter is either unchanged or incremented exactly
\* once (the store executed the INCR, the reply did not arrive in time).
C3_Unavailable ==
    [][\A t \in Threads :
         (CountEnds(t) /\ backend # "up") =>
             /\ resp'[t].code = 503
             /\ resp'[t].body = FixedErrorBody
             /\ "Redis operation failed" \in logged'[t]
             /\ backend = "down" => counter' = counter
             /\ counter' \in {counter, counter + 1}
             /\ okCount' = okCount /\ returned' = returned]_vars

\* a failed /count against an unreachable store after an earlier 200 response
C3_Witness ==
    \E t \in Threads :
        /\ Done(t, "count")
        /\ resp[t].code = 503
        /\ backend = "down"
        /\ okCount > 0
        /\ lostSince = 0
        /\ counter = lastSeen

C5_WriteOnce ==
    [][REDIS_VERSION # None => REDIS_VERSION' = REDIS_VERSION]_vars

C7_AtomicIncr ==
    /\ Cardinality(returned) = okCount
    /\ counter = start + applied
    /\ \A t, u \in Threads :
        (t # u /\ Done(t, "count") /\ Done(u, "count")
              /\ resp[t].code = 200 /\ resp[u].code = 200) =>
            resp[t].body.visit_count # resp[u].body.visit_count

\* two /count requests that were in flight together have both been answered 200
C7_Witness ==
    \E t, u \in Threads :
        /\ t # u
        /\ Done(t, "count") /\ Done(u, "count")
        /\ resp[t].code = 200 /\ resp[u].code = 200
        /\ started = 2
        /\ applied = 2

\* ---- C8 ---------------------------------------------------------------------------
\* C8: every finished /count request carries either HTTP 200 with the fields
\* status "ok", visit_count, note, redis_version, or HTTP 503 with the fixed
\* error body; no exception leaves the handler.
C8_TwoOutcomes ==
    \A t \in Threads : Done(t, "count") =>
        \/ /\ resp[t].code = 200
           /\ DOMAIN resp[t].body = OkKeys
           /\ resp[t].body.status = "ok"
           /\ resp[t].body.note = CountNote
           /\ resp[t].body.visit_count \in Nat
        \/ /\ resp[t].code = 503
           /\ resp[t].body = FixedErrorBody

\* one /count answered 503 after a timeout while another was answered 200
C8_Witness ==
    \E t, u \in Threads :
        /\ Done(t, "count") /\ resp[t].code = 503
        /\ "Redis operation failed" \in logged[t]
        /\ Done(u, "count") /\ resp[u].code = 200

\* ---- C9 ---------------------------------------------------------------------------
\* C9: however many requests failed before, a /ping whose probe runs while the
\* store is up reports redis_connected = true and a /count whose INCR runs while
\* the store is up is answered 200.
C9_NoCachedDown ==
    [][\A t \in Threads :
         /\ (PingEnds(t) /\ backend = "up") =>
                (resp'[t].code = 200 /\ resp'[t].body.redis_connected = TRUE)
         /\ (CountEnds(t) /\ backend = "up") => resp'[t].code = 200]_vars

\* after failed requests, a /ping and a /count have succeeded
C9_Witness ==
    /\ failures >= 2
    /\ \E t, u \in Threads :
        /\ Done(t, "ping") /\ resp[t].body.redis_connected = TRUE
        /\ Done(u, "count") /\ resp[u].code = 200

\* ---- C10 --------------------------------------------------------------------------
\* C10: no step of a /ping request changes the stored counter, whether its
\* version query and probe succeed or fail; only /count changes it.
C10_PingFrame ==
    [][/\ \A t \in Threads :
            (kind[t] = "ping" /\ pc[t] \in {"info", "cmd"} /\ pc'[t] # pc[t]) =>
                counter' = counter
       /\ counter' # counter => \E t \in Threads : CountEnds(t)]_vars

\* a /ping has finished with its probe failed, another with its probe
\* succeeded, and the counter has been incremented by /count meanwhile
C10_Witness ==
    /\ counter > start
    /\ \E t, u \in Threads :
        /\ Done(t, "ping") /\ probe[t] = "ok"
        /\ Done(u, "ping") /\ probe[u] = "failed"
====
